---------------------------- MODULE Spec2Model ----------------------------
(***************************************************************************)
(* A model of auto_checkin.py: the daily lucky-draw runner.                *)
(*                                                                         *)
(* Text is modelled character by character (TLA+ strings, sliced with      *)
(* SubSeq), so the regular expressions and json.loads of the source are    *)
(* operators that scan the same characters the code scans.  The Chinese    *)
(* message literals of the source are written as ASCII stand-ins, because  *)
(* the module has to be ASCII; each stand-in names the line it replaces.   *)
(***************************************************************************)
EXTENDS Integers, Sequences, FiniteSets, TLC

(***************************************************************************)
(* Strings                                                                 *)
(***************************************************************************)
Min(a, b) == IF a <= b THEN a ELSE b
Max(a, b) == IF a >= b THEN a ELSE b

\* s[i-1:j] of Python for 1-based inclusive pos..j, clipped to the string.
Slice(s, pos, j) ==
    IF Max(pos, 1) > Min(j, Len(s)) THEN "" ELSE SubSeq(s, Max(pos, 1), Min(j, Len(s)))

Ch(s, pos) == Slice(s, pos, pos)

\* s[i-1:] starts with p
StartsAt(s, pos, p) == Slice(s, pos, pos + Len(p) - 1) = p /\ pos + Len(p) - 1 <= Len(s)

\* Python's `p in s`
Contains(s, p) == \E pos \in 1..(Len(s) - Len(p) + 1) : StartsAt(s, pos, p)

\* The least element of a non-empty set of indices.
First(S) == CHOOSE k \in S : \A j \in S : k <= j

\* The least k in pos..Len(s) with s[k] = c, or 0.
IndexFrom(s, c, pos) ==
    LET S == {k \in pos..Len(s) : Ch(s, k) = c}
    IN  IF S = {} THEN 0 ELSE First(S)

WhiteSpace == {" ", "\t", "\n", "\r", "\f"}
Digits == {"0", "1", "2", "3", "4", "5", "6", "7", "8", "9"}
HexDigits == Digits \cup {"a", "b", "c", "d", "e", "f", "A", "B", "C", "D", "E", "F"}

\* The first index >= pos whose character is not in cs (a greedy character class).
SkipClass(s, cs, pos) ==
    LET S == {k \in pos..Len(s) : Ch(s, k) \notin cs}
    IN  IF S = {} THEN Max(pos, Len(s) + 1) ELSE First(S)

\* The first index >= pos that holds no white space (regex \s*, JSON white space).
SkipWs(s, pos) == SkipClass(s, WhiteSpace, pos)

DigitValue(c) ==
    CASE c = "0" -> 0 [] c = "1" -> 1 [] c = "2" -> 2 [] c = "3" -> 3 [] c = "4" -> 4
      [] c = "5" -> 5 [] c = "6" -> 6 [] c = "7" -> 7 [] c = "8" -> 8 [] c = "9" -> 9

\* int() of a run of decimal digits.
RECURSIVE DecimalValue(_)
DecimalValue(s) ==
    IF s = "" THEN 0
    ELSE 10 * DecimalValue(Slice(s, 1, Len(s) - 1)) + DigitValue(Ch(s, Len(s)))

(***************************************************************************)
(* Python values.  Every value has the same shape so that values of        *)
(* different types can be compared: t is the type, n the number of an int  *)
(* or bool, s the text of a str or the literal of a float, d the items of  *)
(* a dict as a sequence of <<key, value>>.                                 *)
(***************************************************************************)
PyNone == [t |-> "none", n |-> 0, s |-> "", d |-> <<>>]
PyStr(s) == [t |-> "str", n |-> 0, s |-> s, d |-> <<>>]
PyInt(n) == [t |-> "int", n |-> n, s |-> "", d |-> <<>>]
PyBool(b) == [t |-> "bool", n |-> IF b THEN 1 ELSE 0, s |-> "", d |-> <<>>]
PyFloat(lit) == [t |-> "float", n |-> 0, s |-> lit, d |-> <<>>]
PyList(k) == [t |-> "list", n |-> k, s |-> "", d |-> <<>>]
PyDict(items) == [t |-> "dict", n |-> 0, s |-> "", d |-> items]

\* bool(v)
Truthy(v) ==
    CASE v.t = "none" -> FALSE
      [] v.t = "str" -> v.s # ""
      [] v.t = "int" -> v.n # 0
      [] v.t = "bool" -> v.n = 1
      [] v.t = "float" -> \E pos \in 1..Len(v.s) : Ch(v.s, pos) \in (Digits \ {"0"})
      [] v.t = "list" -> v.n > 0
      [] v.t = "dict" -> Len(v.d) > 0

\* `a or b`
PyOr(a, b) == IF Truthy(a) THEN a ELSE b

\* isinstance(v, int): bool is a subclass of int.
IsInstanceInt(v) == v.t \in {"int", "bool"}

\* str(v), as an f-string formats it.
Format(v) ==
    CASE v.t = "none" -> "None"
      [] v.t = "str" -> v.s
      [] v.t = "int" -> ToString(v.n)
      [] v.t = "bool" -> (IF v.n = 1 THEN "True" ELSE "False")
      [] v.t = "float" -> v.s
      [] v.t = "list" -> "[...]"
      [] v.t = "dict" -> "{...}"

\* dict.get(key, default): the last item with that key (json.loads keeps the last).
RECURSIVE DictGet(_, _, _)
DictGet(items, key, default) ==
    IF items = <<>> THEN default
    ELSE IF items[Len(items)][1] = key THEN items[Len(items)][2]
    ELSE DictGet(SubSeq(items, 1, Len(items) - 1), key, default)


(***************************************************************************)
(* json.loads on the documents the two services can answer with: objects,  *)
(* arrays, strings without escapes, numbers, true, false, null.  A parse   *)
(* result is [ok, v, nxt]: whether a value starts at the index, the value, *)
(* and the index after it.                                                 *)
(***************************************************************************)
ParseFail == [ok |-> FALSE, v |-> PyNone, nxt |-> 0]
ParseOk(v, nxt) == [ok |-> TRUE, v |-> v, nxt |-> nxt]

\* A string literal whose text is body: a raw control character or a backslash
\* inside it is rejected (no escape is in the inputs).
StringOf(body, nxt) ==
    IF \E k \in 1..Len(body) : Ch(body, k) \in {"\n", "\t", "\r", "\f", "\\"}
    THEN ParseFail
    ELSE ParseOk(PyStr(body), nxt)

\* A string literal opening at s[pos] and closed by the quote at s[q].
StringUpTo(s, pos, q) ==
    IF q = 0 THEN ParseFail ELSE StringOf(Slice(s, pos + 1, q - 1), q + 1)

\* A string literal opening at s[pos] = '"': up to the next quote.
ParseStringAt(s, pos) == StringUpTo(s, pos, IndexFrom(s, "\"", pos + 1))

\* -?(0|[1-9][0-9]*)(\.[0-9]+)?([eE][-+]?[0-9]+)? with the digits from a to b - 1
\* and the literal ending before e.
NumberOf(s, pos, a, b, e) ==
    IF b = a THEN ParseFail
    ELSE IF e > b THEN ParseOk(PyFloat(Slice(s, pos, e - 1)), e)
    ELSE ParseOk(PyInt((IF a > pos THEN -1 ELSE 1) * DecimalValue(Slice(s, a, b - 1))), b)

\* ([eE][-+]?[0-9]+)? from f on, its digits from g on ending before d.
ExponentEnd(s, f, g, d) == IF Ch(s, f) \in {"e", "E"} /\ d > g THEN d ELSE f

ExponentFrom(s, f, g) == ExponentEnd(s, f, g, SkipClass(s, Digits, g))

NumberExponent(s, pos, a, b, f) ==
    NumberOf(s, pos, a, b, ExponentFrom(s, f, IF Ch(s, f + 1) \in {"+", "-"} THEN f + 2 ELSE f + 1))

\* (\.[0-9]+)? from b on, its digits ending before d.
FractionEnd(s, b, d) == IF Ch(s, b) = "." /\ d > b + 1 THEN d ELSE b

NumberFraction(s, pos, a, b) ==
    NumberExponent(s, pos, a, b, FractionEnd(s, b, SkipClass(s, Digits, b + 1)))

NumberDigits(s, pos, a) ==
    NumberFraction(s, pos, a, IF Ch(s, a) = "0" THEN a + 1 ELSE SkipClass(s, Digits, a))

ParseNumberAt(s, pos) == NumberDigits(s, pos, IF Ch(s, pos) = "-" THEN pos + 1 ELSE pos)

RECURSIVE ParseValueAt(_, _)
RECURSIVE ParseMembers(_, _, _)
RECURSIVE ParseElements(_, _, _)

\* After a member: `}` ends the object, `,` brings the next member.
MemberNext(s, items, e) ==
    IF Ch(s, e) = "}" THEN ParseOk(PyDict(items), e + 1)
    ELSE IF Ch(s, e) = "," THEN ParseMembers(s, SkipWs(s, e + 1), items)
    ELSE ParseFail

MemberValue(s, items, key, v) ==
    IF ~v.ok THEN ParseFail ELSE MemberNext(s, Append(items, <<key, v.v>>), SkipWs(s, v.nxt))

MemberColon(s, items, key, c) ==
    IF Ch(s, c) # ":" THEN ParseFail
    ELSE MemberValue(s, items, key, ParseValueAt(s, SkipWs(s, c + 1)))

MemberKey(s, items, k) ==
    IF ~k.ok THEN ParseFail ELSE MemberColon(s, items, k.v.s, SkipWs(s, k.nxt))

\* The members of an object from s[pos] on, after `{` or `,`: "key" : value, then , or }.
ParseMembers(s, pos, items) ==
    IF Ch(s, pos) # "\"" THEN ParseFail ELSE MemberKey(s, items, ParseStringAt(s, pos))

\* After an element: `]` ends the array, `,` brings the next element.
ElementNext(s, k, e) ==
    IF Ch(s, e) = "]" THEN ParseOk(PyList(k + 1), e + 1)
    ELSE IF Ch(s, e) = "," THEN ParseElements(s, SkipWs(s, e + 1), k + 1)
    ELSE ParseFail

ElementValue(s, k, v) ==
    IF ~v.ok THEN ParseFail ELSE ElementNext(s, k, SkipWs(s, v.nxt))

\* The elements of an array from s[pos] on, after `[` or `,`.
ParseElements(s, pos, k) == ElementValue(s, k, ParseValueAt(s, pos))

\* The value at s[pos], c its first character, j the index after the white space
\* that follows it.
ValueAt(s, pos, c, j) ==
    CASE c = "{" -> (IF Ch(s, j) = "}" THEN ParseOk(PyDict(<<>>), j + 1)
                     ELSE ParseMembers(s, j, <<>>))
      [] c = "[" -> (IF Ch(s, j) = "]" THEN ParseOk(PyList(0), j + 1)
                     ELSE ParseElements(s, j, 0))
      [] c = "\"" -> ParseStringAt(s, pos)
      [] c \in Digits \cup {"-"} -> ParseNumberAt(s, pos)
      [] StartsAt(s, pos, "true") -> ParseOk(PyBool(TRUE), pos + 4)
      [] StartsAt(s, pos, "false") -> ParseOk(PyBool(FALSE), pos + 5)
      [] StartsAt(s, pos, "null") -> ParseOk(PyNone, pos + 4)
      [] OTHER -> ParseFail

ParseValueAt(s, pos) == ValueAt(s, pos, Ch(s, pos), SkipWs(s, pos + 1))

\* The document is the value r and white space after it, nothing else.
WholeDocument(s, r) ==
    IF r.ok /\ SkipWs(s, r.nxt) = Len(s) + 1 THEN [ok |-> TRUE, v |-> r.v]
    ELSE [ok |-> FALSE, v |-> PyNone]

\* json.loads(s): [ok, v]; ok is FALSE where the code's call raises.
json_loads(s) == WholeDocument(s, ParseValueAt(s, SkipWs(s, 1)))

(***************************************************************************)
(* html.unescape and html.escape, on the five characters html.escape       *)
(* rewrites and the references that name them.                             *)
(***************************************************************************)
\* The first index >= pos whose character is in cs, or Len(s) + 1.
FindClass(s, cs, pos) ==
    LET S == {k \in pos..Len(s) : Ch(s, k) \in cs}
    IN  IF S = {} THEN Max(pos, Len(s) + 1) ELSE First(S)

\* html.unescape from index pos on, k the index of the next `&`: the text before it
\* is kept; a reference that starts there is replaced, any other `&` is kept.
RECURSIVE HtmlUnescapeFrom(_, _)
HtmlUnescapeAt(s, pos, k) ==
    IF k > Len(s) THEN Slice(s, pos, Len(s))
    ELSE Slice(s, pos, k - 1) \o
         (IF StartsAt(s, k, "&amp;") THEN "&" \o HtmlUnescapeFrom(s, k + 5)
          ELSE IF StartsAt(s, k, "&lt;") THEN "<" \o HtmlUnescapeFrom(s, k + 4)
          ELSE IF StartsAt(s, k, "&gt;") THEN ">" \o HtmlUnescapeFrom(s, k + 4)
          ELSE IF StartsAt(s, k, "&quot;") THEN "\"" \o HtmlUnescapeFrom(s, k + 6)
          ELSE IF StartsAt(s, k, "&#x27;") THEN "'" \o HtmlUnescapeFrom(s, k + 6)
          ELSE IF StartsAt(s, k, "&#39;") THEN "'" \o HtmlUnescapeFrom(s, k + 5)
          ELSE "&" \o HtmlUnescapeFrom(s, k + 1))

HtmlUnescapeFrom(s, pos) == HtmlUnescapeAt(s, pos, FindClass(s, {"&"}, pos))

html_unescape(s) == HtmlUnescapeFrom(s, 1)

\* html.escape(s) from index pos on, k the index of the next of & < > " ': it is
\* replaced, the text before it is kept.
RECURSIVE HtmlEscapeFrom(_, _)
HtmlEscapeAt(s, pos, k, c) ==
    IF k > Len(s) THEN Slice(s, pos, Len(s))
    ELSE Slice(s, pos, k - 1) \o
         (CASE c = "&" -> "&amp;"
            [] c = "<" -> "&lt;"
            [] c = ">" -> "&gt;"
            [] c = "\"" -> "&quot;"
            [] c = "'" -> "&#x27;") \o HtmlEscapeFrom(s, k + 1)

HtmlEscapeNext(s, pos, k) == HtmlEscapeAt(s, pos, k, Ch(s, k))

HtmlEscapeFrom(s, pos) == HtmlEscapeNext(s, pos, FindClass(s, {"&", "<", ">", "\"", "'"}, pos))

html_escape(s) == HtmlEscapeFrom(s, 1)

(***************************************************************************)
(* mask_code                                                               *)
(***************************************************************************)
MASK == "****"

\* len(code) raises TypeError on a truthy number, the slices on a dict.
mask_code_raises(code) ==
    Truthy(code) /\ (code.t \in {"int", "bool", "float"} \/ (code.t = "dict" /\ Len(code.d) >= 8))

\* Lines 70-73
mask_code(code) ==
    IF \/ ~Truthy(code)
       \/ (code.t = "str" /\ Len(code.s) < 8)
       \/ (code.t = "list" /\ code.n < 8)
       \/ (code.t = "dict" /\ Len(code.d) < 8)
    THEN MASK
    ELSE Slice(Format(code), 1, 4) \o MASK \o Slice(Format(code), Len(Format(code)) - 3, Len(Format(code)))

(***************************************************************************)
(* luckydraw_once: one draw request and the interpretation of its answer.  *)
(* A response is [exc, status, text]: exc when requests.post raised (text  *)
(* is then the exception's text), else the HTTP status and the body.       *)
(***************************************************************************)
MSG_DRAW_EXC == "draw request exception: "                      \* line 211
MSG_DRAW_401 == "draw endpoint returned 401, cookie invalid"    \* line 214
MSG_DRAW_403_CF == "draw endpoint returned 403 (Cloudflare challenge)"  \* line 218
MSG_DRAW_403 == "draw endpoint returned 403, cookie or next-action expired"  \* line 220
MSG_DRAW_5XX == "draw endpoint server error: HTTP "             \* line 223

NoMatch == [ok |-> FALSE, g |-> ""]

\* ([0-9a-fA-F]{16,})" from index a on, the hex digits ending before e.
CodeDigits(text, a, e) ==
    IF e - a >= 16 /\ Ch(text, e) = "\"" THEN [ok |-> TRUE, g |-> Slice(text, a, e - 1)]
    ELSE NoMatch

CodeQuote(text, q) ==
    IF Ch(text, q) # "\"" THEN NoMatch ELSE CodeDigits(text, q + 1, SkipClass(text, HexDigits, q + 1))

CodeColon(text, c) ==
    IF Ch(text, c) # ":" THEN NoMatch ELSE CodeQuote(text, SkipWs(text, c + 1))

\* r'"redemptionCode"\s*:\s*"([0-9a-fA-F]{16,})"' matched at index pos: [ok, g].
RedemptionCodeAt(text, pos) ==
    IF ~StartsAt(text, pos, "\"redemptionCode\"") THEN NoMatch
    ELSE CodeColon(text, SkipWs(text, pos + Len("\"redemptionCode\"")))

RedemptionCodeAmong(text, S) ==
    IF S = {} THEN NoMatch ELSE RedemptionCodeAt(text, First(S))

\* re.search of that pattern: the leftmost match.
SearchRedemptionCode(text) ==
    RedemptionCodeAmong(text, {k \in 1..Len(text) : RedemptionCodeAt(text, k).ok})

\* (.*?)" from index a on, e the index of the next quote; `.` matches no newline.
MessageText(text, a, e) ==
    IF e # 0 /\ ~Contains(Slice(text, a, e - 1), "\n")
    THEN [ok |-> TRUE, g |-> Slice(text, a, e - 1)]
    ELSE NoMatch

MessageQuote(text, q) ==
    IF Ch(text, q) # "\"" THEN NoMatch ELSE MessageText(text, q + 1, IndexFrom(text, "\"", q + 1))

MessageColon(text, c) ==
    IF Ch(text, c) # ":" THEN NoMatch ELSE MessageQuote(text, SkipWs(text, c + 1))

\* r'"message"\s*:\s*"(.*?)"' matched at index pos: [ok, g].
MessageAt(text, pos) ==
    IF ~StartsAt(text, pos, "\"message\"") THEN NoMatch
    ELSE MessageColon(text, SkipWs(text, pos + Len("\"message\"")))

MessageAmong(text, S) ==
    IF S = {} THEN NoMatch ELSE MessageAt(text, First(S))

\* A mutation of SearchMessage: the rightmost match.
SearchMessageLast(text) ==
    LET S == {k \in 1..Len(text) : MessageAt(text, k).ok}
    IN  IF S = {} THEN NoMatch ELSE MessageAt(text, CHOOSE k \in S : \A j \in S : k >= j)

\* re.search of that pattern: the leftmost match.
SearchMessage(text) ==
    MessageAmong(text, {k \in 1..Len(text) : MessageAt(text, k).ok})

\* re.findall(r'\{.*?\}', text, flags=re.S) from index pos on: from each `{` to the
\* first `}` after it, the scan going on after that `}`.
RECURSIVE FindFragments(_, _)
FindFragments(text, pos) ==
    LET a == IndexFrom(text, "{", pos)
        b == IndexFrom(text, "}", a + 1)
    IN  IF a = 0 \/ b = 0 THEN <<>>
        ELSE <<Slice(text, a, b)>> \o FindFragments(text, b + 1)

\* for part in obj_parts[::-1]: the last fragment json.loads accepts, else {}.
RECURSIVE LastParsed(_)
ParsedOr(r, rest) == IF r.ok THEN r.v ELSE LastParsed(rest)

LastParsed(parts) ==
    IF parts = <<>> THEN PyDict(<<>>)
    ELSE ParsedOr(json_loads(parts[Len(parts)]), SubSeq(parts, 1, Len(parts) - 1))

\* Lines 253-263: what is returned, m and m3 being the matches of the two patterns
\* and parsed the fragment the loop kept.
Interpreted(status, m, m3, parsed) ==
    LET redemption1 == IF m.ok THEN PyStr(m.g) ELSE PyNone
        msg1 == IF m3.ok THEN PyStr(html_unescape(m3.g)) ELSE PyStr("")
        usable == Truthy(parsed) /\ parsed.t = "dict"
        redemption == IF ~Truthy(redemption1) /\ usable
                      THEN DictGet(parsed.d, "redemptionCode", PyNone) ELSE redemption1
        msg2 == IF ~Truthy(msg1) /\ usable
                THEN PyOr(DictGet(parsed.d, "message", PyNone), PyStr("")) ELSE msg1
        msg == IF ~Truthy(msg2) THEN PyStr("HTTP " \o ToString(status)) ELSE msg2
    IN  [code |-> redemption, msg |-> msg, parsed |-> parsed]

\* Lines 225-263: the interpretation of a body that no status rule caught.
interpret(status, text) ==
    Interpreted(status, SearchRedemptionCode(text), SearchMessage(text),
                LastParsed(FindFragments(text, 1)))

\* Lines 208-263
luckydraw_once(resp) ==
    IF resp.exc
    THEN [code |-> PyNone, msg |-> PyStr(MSG_DRAW_EXC \o resp.text), parsed |-> PyDict(<<>>)]
    ELSE IF resp.status = 401
    THEN [code |-> PyNone, msg |-> PyStr(MSG_DRAW_401),
          parsed |-> PyDict(<< <<"status", PyInt(resp.status)>> >>)]
    ELSE IF resp.status = 403
    THEN [code |-> PyNone,
          msg |-> IF Contains(Slice(resp.text, 1, 200), "Just a moment")
                  THEN PyStr(MSG_DRAW_403_CF) ELSE PyStr(MSG_DRAW_403),
          parsed |-> PyDict(<< <<"status", PyInt(resp.status)>>,
                               <<"preview", PyStr(Slice(resp.text, 1, 200))>> >>)]
    ELSE IF resp.status >= 500
    THEN [code |-> PyNone, msg |-> PyStr(MSG_DRAW_5XX \o ToString(resp.status)),
          parsed |-> PyDict(<< <<"status", PyInt(resp.status)>> >>)]
    ELSE interpret(resp.status, resp.text)

(***************************************************************************)
(* topup_once: one redemption request.  The result is [raises, ok, msg,    *)
(* data]; raises is TRUE where the function lets an exception out.         *)
(***************************************************************************)
MSG_TOPUP_EXC == "topup request exception: "      \* line 303
MSG_TOPUP_HTTP == "topup endpoint error: HTTP "   \* line 307
MSG_TOPUP_PARSE == "topup response unparseable"   \* line 317

\* Lines 319-322: the answer made of the parsed body j.
TopupAnswer(j) ==
    IF ~j.ok
    THEN [raises |-> FALSE, ok |-> FALSE, msg |-> PyStr(MSG_TOPUP_PARSE), data |-> PyNone]
    ELSE IF j.v.t # "dict"
    THEN [raises |-> TRUE, ok |-> FALSE, msg |-> PyNone, data |-> PyNone]
    ELSE [raises |-> FALSE,
          ok |-> Truthy(DictGet(j.v.d, "success", PyNone)),
          msg |-> DictGet(j.v.d, "message", PyStr("")),
          data |-> DictGet(j.v.d, "data", PyNone)]

\* Lines 299-322
topup_once(code, resp) ==
    IF resp.exc
    THEN [raises |-> FALSE, ok |-> FALSE, msg |-> PyStr(MSG_TOPUP_EXC \o resp.text), data |-> PyNone]
    ELSE IF resp.status >= 400
    THEN [raises |-> FALSE, ok |-> FALSE,
          msg |-> PyStr(MSG_TOPUP_HTTP \o ToString(resp.status) \o " " \o Slice(resp.text, 1, 200)),
          data |-> PyNone]
    ELSE TopupAnswer(json_loads(resp.text))

(***************************************************************************)
(* The run: main(), one process at a time, and what surrounds it: the      *)
(* calendar, the state file kept between runs, the process being killed.   *)
(***************************************************************************)
MaxEvents == 2       \* events around the runs in one behaviour: a further run
                     \* started, a run killed, a midnight, a loss of the state file
MaxInitNeed == 2     \* attempts today's quota still allows in the first state
MaxReportNeed == 2   \* attempts of the run whose reports are examined
MaxFragments == 2    \* JSON fragments in a body handed to the interpreter

HARD_CAP == 5        \* min(MAX_TIMES, 5)

Days == 1..(MaxEvents + 1)

\* Values of the MAX_TIMES environment variable the runs are started with.
MaxTimesValues == {2, 5, 7}

VARIABLES
    day,            \* today_key(): the calendar day in TIMEZONE
    file,           \* STATE_FILE: [readable, days], days[d] the "tries" of day d
    env,            \* the environment of the running process
    pc,             \* where the process is
    state,          \* main's `state`: the dict load_state returned, as days[d]
    already, target, need, i,
    draw,           \* (code, draw_msg, parsed) of the attempt in hand
    results,        \* main's `results`
    report_json,    \* dist/summary.json as this run wrote it
    report_html,    \* dist/index.html as this run wrote it
    push,           \* what this run handed to send_push
    log,            \* the console lines that carry data of the services
    day0,           \* the day the run loaded its state on
    total0,         \* the tries over all days in the state the run loaded
    issued,         \* draw requests this run has issued
    issuedOn,       \* issuedOn[d]: draw requests issued on day d, over all runs
    unsaved,        \* runs killed between a draw and the save of its increment
    losses,         \* times the state file was lost
    events,         \* events around the runs so far
    runs,           \* processes started so far
    payload,        \* a draw response handed to the interpreter on its own
    outcome         \* what luckydraw_once made of payload

vars == <<day, file, env, pc, state, already, target, need, i, draw, results,
          report_json, report_html, push, log, day0, total0, issued, issuedOn,
          unsaved, losses, events, runs, payload, outcome>>

runVars == <<env, state, already, target, need, i, draw, results, report_json,
             report_html, push, log, day0, total0, issued>>

NoDays == [d \in Days |-> 0]
NoDraw == [code |-> PyNone, msg |-> PyStr(""), parsed |-> PyDict(<<>>)]
NoJson == [written |-> FALSE, total_amount |-> 0, items |-> <<>>, today_tried |-> 0, today_target |-> 0]
NoHtml == [written |-> FALSE, total_amount |-> 0, rows |-> <<>>]
NoPush == [invoked |-> FALSE, posted |-> FALSE, title |-> "", content |-> ""]
NoPayload == [exc |-> FALSE, status |-> 0, text |-> "", parts |-> <<>>]

Ended == {"idle", "aborted", "done", "crashed", "killed"}
Running == {"loop", "drawn", "topup", "json", "html"}

RECURSIVE SumDays(_, _)
SumDays(days, d) == IF d = 0 THEN 0 ELSE days[d] + SumDays(days, d - 1)

\* load_state(): {} when the file cannot be read or parsed.
load_state ==
    IF file.readable THEN file.days ELSE NoDays

\* get_today_counts(state)
get_today_counts(st) == st[day]

\* The tries the file holds for day d, as a reload would see them.
Persisted(d) == IF file.readable THEN file.days[d] ELSE 0

\* bump_today_count with a mutation: the increment is not applied.
bump_today_count_noinc(st, inc) ==
    st

\* bump_today_count with a mutation: every attempt counts twice.
bump_today_count_twice(st, inc) ==
    [st EXCEPT ![day] = @ + inc + inc]

\* bump_today_count(state, inc): the state it leaves in memory and saves.
bump_today_count(st, inc) ==
    [st EXCEPT ![day] = @ + inc]

\* save_state(state)
save_state(st) == [readable |-> TRUE, days |-> st]

\* target = min(MAX_TIMES, 5) with a mutation: the hard cap is dropped.
target_of_uncapped(max_times) ==
    max_times

\* target = min(MAX_TIMES, 5)
target_of(max_times) ==
    Min(max_times, HARD_CAP)

\* need with a mutation: the tries already made are ignored.
need_of_fresh(tgt, alr) ==
    Max(0, tgt)

\* need = max(0, target - already)
need_of(tgt, alr) ==
    Max(0, tgt - alr)

(***************************************************************************)
(* The attempt records and the reports made of them.                       *)
(***************************************************************************)
MSG_NO_CODE == "no redemption code obtained"   \* lines 443-444

\* Lines 424-431 and 442-444: the record of an attempt that drew no code.
record_without_code(d) ==
    [draw_msg |-> PyOr(d.msg, PyStr("")),
     code |-> PyOr(d.code, PyStr("")),
     code_mask |-> "",
     topup_ok |-> FALSE,
     topup_amount |-> PyStr(""),
     topup_msg |-> PyStr(IF Truthy(d.msg)
                         THEN MSG_NO_CODE \o " (" \o Format(d.msg) \o ")"
                         ELSE MSG_NO_CODE)]

\* Lines 424-440: the record of an attempt whose code was handed to topup_once.
record_with_code(d, r) ==
    [draw_msg |-> PyOr(d.msg, PyStr("")),
     code |-> PyOr(d.code, PyStr("")),
     code_mask |-> mask_code(d.code),
     topup_ok |-> r.ok,
     topup_amount |-> IF r.data.t # "none" THEN r.data ELSE PyStr(""),
     topup_msg |-> PyOr(r.msg, PyStr(""))]

\* Line 451: sum(int(r["topup_amount"]) for r in results if isinstance(..., int))
RECURSIVE total_amount(_)
total_amount(items) ==
    IF items = <<>> THEN 0
    ELSE (IF IsInstanceInt(Head(items).topup_amount)
          THEN Head(items).topup_amount.n ELSE 0) + total_amount(Tail(items))

\* Lines 454-461: the summary json.dumps serialises; "items" are the records whole.
summary(items, tot, tried, tgt) ==
    [written |-> TRUE, total_amount |-> tot, items |-> items,
     today_tried |-> tried, today_target |-> tgt]

\* html.escape raises AttributeError on a value that is no str.
render_html_raises(items) ==
    \E k \in 1..Len(items) : items[k].draw_msg.t # "str" \/ items[k].topup_msg.t # "str"

\* Lines 331-341: the cells of the table, one row per record.
render_html(items, tot) ==
    [written |-> TRUE,
     total_amount |-> tot,
     rows |-> [k \in 1..Len(items) |->
                 <<ToString(k),
                   html_escape(items[k].draw_msg.s),
                   html_escape(items[k].code_mask),
                   IF items[k].topup_ok THEN "Y" ELSE "N",
                   Format(items[k].topup_amount),
                   html_escape(items[k].topup_msg.s)>>]]

\* A mutation of has_success: only a redemption that succeeded counts.
has_success_topup_only(items) ==
    \E k \in 1..Len(items) : items[k].topup_ok

\* Line 467: any((r.get("topup_ok") or r.get("code")) for r in results)
has_success(items) ==
    \E k \in 1..Len(items) : items[k].topup_ok \/ Truthy(items[k].code)

\* Lines 473-476: one line of the notification body.
push_line(k, r) ==
    "- #" \o ToString(k) \o ": " \o (IF r.topup_ok THEN "Y" ELSE "N") \o " "
      \o r.code_mask \o " amount:" \o Format(r.topup_amount) \o "  "
      \o Format(PyOr(r.topup_msg, r.draw_msg))

RECURSIVE push_lines(_, _)
push_lines(items, k) ==
    IF k > Len(items) THEN ""
    ELSE (IF k > 1 THEN "\n" ELSE "") \o push_line(k, items[k]) \o push_lines(items, k + 1)

\* Line 477: the notification body.
push_content(items, tot) ==
    "total: " \o ToString(tot) \o "\n\n" \o push_lines(items, 1)

(***************************************************************************)
(* Answers of the two services.                                            *)
(***************************************************************************)
Http(status, text) == [exc |-> FALSE, status |-> status, text |-> text]
Raised(text) == [exc |-> TRUE, status |-> 0, text |-> text]

CODE16 == "0123456789abcdef"
BODY_WIN == "0:{\"a\":\"$@1\"}\n1:{\"success\":true,\"redemptionCode\":\"0123456789abcdef\",\"message\":\"win\"}"
BODY_TWO == "garbage{\"message\":\"try later\"}moregarbage{\"redemptionCode\":\"0123456789abcdef\",\"message\":\"win\"}"
BODY_SHORT == "1:{\"success\":true,\"redemptionCode\":\"abc123\"}"
BODY_INT_CODE == "1:{\"redemptionCode\":12345678}"
BODY_INT_MSG == "1:{\"success\":false,\"message\":5}"
BODY_THANKS == "1:{\"success\":true,\"message\":\"thank you &amp; good luck\"}"

TOPUP_OK == "{\"success\":true,\"data\":100,\"message\":\"ok\"}"
TOPUP_BOOL == "{\"success\":true,\"data\":true,\"message\":\"ok\"}"
TOPUP_STR == "{\"success\":true,\"data\":\"100\",\"message\":\"ok\"}"
TOPUP_FRAC == "{\"success\":true,\"data\":1.5,\"message\":\"ok\"}"
TOPUP_USED == "{\"success\":false,\"message\":\"code already used\"}"
TOPUP_INT_MSG == "{\"success\":false,\"data\":7,\"message\":5}"
TOPUP_ARRAY == "[1]"

\* The answers the runs of Spec meet.
DrawResponses == {Http(401, ""), Http(200, BODY_WIN)}
TopupResponses == {Http(200, TOPUP_OK), Http(200, TOPUP_ARRAY)}

\* The answers the run of SpecReport meets.
ReportDrawResponses ==
    {Raised("timed out"), Http(401, ""), Http(403, "<title>Just a moment...</title>"),
     Http(200, BODY_TWO), Http(200, BODY_SHORT), Http(200, BODY_INT_CODE),
     Http(200, BODY_INT_MSG), Http(200, BODY_THANKS)}
ReportTopupResponses ==
    {Raised("timed out"), Http(400, "bad request"), Http(200, "<html>"),
     Http(200, TOPUP_OK), Http(200, TOPUP_BOOL), Http(200, TOPUP_STR), Http(200, TOPUP_FRAC),
     Http(200, TOPUP_USED), Http(200, TOPUP_INT_MSG), Http(200, TOPUP_ARRAY)}

\* luckydraw_once and topup_once on every answer above, worked out once.
drawn == [r \in DrawResponses \cup ReportDrawResponses |-> luckydraw_once(r)]
redeemed == [r \in TopupResponses \cup ReportTopupResponses |-> topup_once(PyStr(CODE16), r)]

(***************************************************************************)
(* main()                                                                  *)
(***************************************************************************)
\* Lines 388-412: a process starts, loads the state, checks the configuration and
\* plans the attempts.  SystemExit leaves it "aborted".
Start(max_times, configured, token) ==
    /\ pc \in Ended
    /\ env' = [MAX_TIMES |-> max_times, configured |-> configured, PUSH_TOKEN |-> token]
    /\ state' = load_state
    /\ day0' = day
    /\ total0' = SumDays(load_state, MaxEvents + 1)
    /\ issued' = 0
    /\ i' = 0
    /\ draw' = NoDraw
    /\ results' = <<>>
    /\ report_json' = NoJson
    /\ report_html' = NoHtml
    /\ push' = NoPush
    /\ log' = {}
    /\ runs' = runs + 1
    /\ events' = IF runs = 0 THEN events ELSE events + 1
    /\ IF configured
       THEN /\ already' = get_today_counts(load_state)
            /\ target' = target_of(max_times)
            /\ need' = need_of(target_of(max_times), get_today_counts(load_state))
            /\ pc' = "loop"
       ELSE /\ already' = 0
            /\ target' = 0
            /\ need' = 0
            /\ pc' = "aborted"
    /\ UNCHANGED <<day, file, issuedOn, unsaved, losses, payload, outcome>>

\* Line 417: the draw request is issued and answered.
Draw(resp) ==
    /\ pc = "loop"
    /\ i < need
    /\ draw' = drawn[resp]
    /\ issued' = issued + 1
    /\ issuedOn' = [issuedOn EXCEPT ![day] = @ + 1]
    /\ pc' = "drawn"
    /\ UNCHANGED <<day, file, env, state, already, target, need, i, results, report_json,
                   report_html, push, log, day0, total0, unsaved, losses, events, runs,
                   payload, outcome>>

\* Lines 420-436 and 442-448: the attempt is counted and saved, the record is begun;
\* without a code the record is complete, with one the redemption comes next.
Bump ==
    /\ pc = "drawn"
    /\ state' = bump_today_count(state, 1)
    /\ file' = save_state(bump_today_count(state, 1))
    /\ IF mask_code_raises(draw.code)
       THEN /\ pc' = "crashed"
            /\ UNCHANGED <<results, i, log>>
       ELSE IF Truthy(draw.code)
       THEN /\ pc' = "topup"
            /\ log' = log \cup {"draw " \o ToString(i + 1) \o " got code " \o mask_code(draw.code),
                                "topup: redeeming code " \o mask_code(draw.code)}
            /\ UNCHANGED <<results, i>>
       ELSE /\ pc' = "loop"
            /\ results' = Append(results, record_without_code(draw))
            /\ i' = i + 1
            /\ log' = log \cup {"draw " \o ToString(i + 1) \o " no code: " \o Format(draw.msg)}
    /\ UNCHANGED <<day, env, already, target, need, draw, report_json, report_html, push,
                   day0, total0, issued, issuedOn, unsaved, losses, events, runs, payload, outcome>>

\* Lines 437-441 and 447-448: the redemption request is issued and answered.
Topup(resp) ==
    /\ pc = "topup"
    /\ IF redeemed[resp].raises
       THEN /\ pc' = "crashed"
            /\ UNCHANGED <<results, i, log>>
       ELSE /\ pc' = "loop"
            /\ results' = Append(results, record_with_code(draw, redeemed[resp]))
            /\ i' = i + 1
            /\ log' = log \cup {"topup " \o ToString(i + 1) \o ": "
                                  \o Format(PyOr(redeemed[resp].msg, PyStr("no message")))}
    /\ UNCHANGED <<day, file, env, state, already, target, need, draw, report_json,
                   report_html, push, day0, total0, issued, issuedOn, unsaved, losses, events,
                   runs, payload, outcome>>

\* Lines 451-462: the loop is over, the summary is written.
WriteJson ==
    /\ pc = "loop"
    /\ i >= need
    /\ report_json' = summary(results, total_amount(results), get_today_counts(state), target)
    /\ pc' = "json"
    /\ UNCHANGED <<day, file, env, state, already, target, need, i, draw, results,
                   report_html, push, log, day0, total0, issued, issuedOn, unsaved, losses,
                   events, runs, payload, outcome>>

\* Line 463: the page is rendered and written.
WriteHtml ==
    /\ pc = "json"
    /\ IF render_html_raises(results)
       THEN /\ pc' = "crashed"
            /\ UNCHANGED report_html
       ELSE /\ pc' = "html"
            /\ report_html' = render_html(results, total_amount(results))
    /\ UNCHANGED <<day, file, env, state, already, target, need, i, draw, results,
                   report_json, push, log, day0, total0, issued, issuedOn, unsaved, losses,
                   events, runs, payload, outcome>>

\* Lines 467-480: the notification is sent or skipped; answered tells whether the
\* webhook accepted it.
Notify(answered) ==
    /\ pc = "html"
    /\ IF results = <<>> \/ ~has_success(results)
       THEN /\ push' = NoPush
            /\ UNCHANGED log
       ELSE /\ push' = [invoked |-> TRUE,
                        posted |-> env.PUSH_TOKEN,
                        title |-> "check-in finished",
                        content |-> push_content(results, total_amount(results))]
            /\ log' = log \cup {"[Push] ok=" \o (IF env.PUSH_TOKEN /\ answered THEN "True" ELSE "False")}
    /\ pc' = "done"
    /\ UNCHANGED <<day, file, env, state, already, target, need, i, draw, results,
                   report_json, report_html, day0, total0, issued, issuedOn, unsaved, losses,
                   events, runs, payload, outcome>>

(***************************************************************************)
(* What happens around the process.                                        *)
(***************************************************************************)
\* The process is killed where it stands (a cancelled job, a machine going down).
Kill ==
    /\ pc \in Running
    /\ events < MaxEvents
    /\ events' = events + 1
    /\ unsaved' = IF pc = "drawn" THEN unsaved + 1 ELSE unsaved
    /\ pc' = "killed"
    /\ UNCHANGED <<day, file, runVars, issuedOn, losses, runs, payload, outcome>>

\* Midnight passes in TIMEZONE.
Midnight ==
    /\ events < MaxEvents
    /\ events' = events + 1
    /\ day' = day + 1
    /\ UNCHANGED <<file, pc, runVars, issuedOn, unsaved, losses, runs, payload, outcome>>

\* Between two runs the state file is lost or damaged (the cache that carries it
\* is not restored): load_state will find nothing to read.
LoseStore ==
    /\ pc \in Ended
    /\ events < MaxEvents
    /\ events' = events + 1
    /\ file.readable
    /\ file' = [readable |-> FALSE, days |-> NoDays]
    /\ losses' = losses + 1
    /\ UNCHANGED <<day, pc, runVars, issuedOn, unsaved, runs, payload, outcome>>

Init ==
    /\ day = 1
    /\ \E c \in (HARD_CAP - MaxInitNeed)..HARD_CAP : file = [readable |-> TRUE, days |-> [NoDays EXCEPT ![1] = c]]
    /\ env = [MAX_TIMES |-> 5, configured |-> TRUE, PUSH_TOKEN |-> FALSE]
    /\ pc = "idle"
    /\ state = NoDays
    /\ already = 0 /\ target = 0 /\ need = 0 /\ i = 0
    /\ draw = NoDraw
    /\ results = <<>>
    /\ report_json = NoJson
    /\ report_html = NoHtml
    /\ push = NoPush
    /\ log = {}
    /\ day0 = 1 /\ total0 = 0 /\ issued = 0
    /\ issuedOn = file.days
    /\ unsaved = 0 /\ losses = 0 /\ events = 0 /\ runs = 0
    /\ payload = NoPayload
    /\ outcome = NoDraw

StartRun ==
    /\ runs = 0 \/ events < MaxEvents
    /\ \E m \in MaxTimesValues, configured \in BOOLEAN : Start(m, configured, FALSE)

Next ==
    \/ StartRun
    \/ \E resp \in DrawResponses : Draw(resp)
    \/ Bump
    \/ \E resp \in TopupResponses : Topup(resp)
    \/ WriteJson
    \/ WriteHtml
    \/ \E answered \in BOOLEAN : Notify(answered)
    \/ Kill
    \/ Midnight
    \/ LoseStore

Spec == Init /\ [][Next]_vars

(***************************************************************************)
(* One run seen with every kind of answer, for what it reports.            *)
(***************************************************************************)
InitReport ==
    /\ day = 1
    /\ \E c \in (HARD_CAP - MaxReportNeed)..HARD_CAP :
          file = [readable |-> TRUE, days |-> [NoDays EXCEPT ![1] = c]]
    /\ env = [MAX_TIMES |-> 5, configured |-> TRUE, PUSH_TOKEN |-> FALSE]
    /\ pc = "idle"
    /\ state = NoDays
    /\ already = 0 /\ target = 0 /\ need = 0 /\ i = 0
    /\ draw = NoDraw
    /\ results = <<>>
    /\ report_json = NoJson
    /\ report_html = NoHtml
    /\ push = NoPush
    /\ log = {}
    /\ day0 = 1 /\ total0 = 0 /\ issued = 0
    /\ issuedOn = file.days
    /\ unsaved = 0 /\ losses = 0 /\ events = 0 /\ runs = 0
    /\ payload = NoPayload
    /\ outcome = NoDraw

StartOnce ==
    /\ runs = 0
    /\ \E m \in MaxTimesValues, configured \in BOOLEAN, token \in BOOLEAN : Start(m, configured, token)

NextReport ==
    \/ StartOnce
    \/ \E resp \in ReportDrawResponses : Draw(resp)
    \/ Bump
    \/ \E resp \in ReportTopupResponses : Topup(resp)
    \/ WriteJson
    \/ WriteHtml
    \/ \E answered \in BOOLEAN : Notify(answered)

SpecReport == InitReport /\ [][NextReport]_vars

(***************************************************************************)
(* The interpreter on its own: bodies put together from JSON fragments     *)
(* whose fields are known, with text that is no JSON around them.          *)
(***************************************************************************)
Fragment(text, code, hex, msg) == [text |-> text, code |-> code, hex |-> hex, msg |-> msg]

Fragments ==
    {Fragment("{\"message\":\"try later\"}", PyNone, FALSE, PyStr("try later")),
     Fragment("{\"redemptionCode\":\"0123456789abcdef\",\"message\":\"win\"}",
              PyStr("0123456789abcdef"), TRUE, PyStr("win")),
     Fragment("{\"redemptionCode\" : \"FEDCBA9876543210AB\"}", PyStr("FEDCBA9876543210AB"), TRUE, PyNone),
     Fragment("{\"success\":false}", PyNone, FALSE, PyNone),
     Fragment("{\"redemptionCode\":\"abc123\",\"message\":\"\"}", PyStr("abc123"), FALSE, PyStr("")),
     Fragment("{\"success\":true,\"message\":5}", PyNone, FALSE, PyInt(5)),
     Fragment("{\"message\":\"a &lt; b\",\"redemptionCode\":null}", PyNone, FALSE, PyStr("a &lt; b"))}

\* The body: "garbage" before the first fragment, "moregarbage" between two.
RECURSIVE Compose(_)
Compose(parts) ==
    IF parts = <<>> THEN ""
    ELSE Compose(SubSeq(parts, 1, Len(parts) - 1))
           \o (IF Len(parts) = 1 THEN "garbage" ELSE "moregarbage") \o parts[Len(parts)].text

Bodies == UNION {[1..n -> Fragments] : n \in 1..MaxFragments}

InitInterp ==
    /\ \E parts \in Bodies, status \in {200, 404} :
          payload = [exc |-> FALSE, status |-> status, text |-> Compose(parts), parts |-> parts]
    /\ outcome = NoDraw
    /\ day = 1
    /\ file = [readable |-> TRUE, days |-> NoDays]
    /\ env = [MAX_TIMES |-> 5, configured |-> TRUE, PUSH_TOKEN |-> FALSE]
    /\ pc = "idle"
    /\ state = NoDays
    /\ already = 0 /\ target = 0 /\ need = 0 /\ i = 0
    /\ draw = NoDraw
    /\ results = <<>>
    /\ report_json = NoJson
    /\ report_html = NoHtml
    /\ push = NoPush
    /\ log = {}
    /\ day0 = 1 /\ total0 = 0 /\ issued = 0
    /\ issuedOn = NoDays
    /\ unsaved = 0 /\ losses = 0 /\ events = 0 /\ runs = 0

\* luckydraw_once is given the payload as the answer of the draw endpoint.
Interpret ==
    /\ pc = "idle"
    /\ outcome' = luckydraw_once(payload)
    /\ pc' = "interpreted"
    /\ UNCHANGED <<day, file, runVars, issuedOn, unsaved, losses, events, runs, payload>>

NextInterp == Interpret

SpecInterp == InitInterp /\ [][NextInterp]_vars

(***************************************************************************)
(* Properties                                                              *)
(***************************************************************************)
\* The tries the file holds over all days, as a reload would see them.
PersistedTotal == IF file.readable THEN SumDays(file.days, MaxEvents + 1) ELSE 0

\* A step in which main returns or lets an exception out.
RunEnds == pc \in Running /\ pc' \in {"done", "crashed"}

\* C1 as stated: when a run that began with today's counter at c and issued k draws
\* ends, today's counter is c + k, and that is what a reload of the file yields;
\* today taken either as the day the run began or as the day it ends.
C1_Original ==
    [][RunEnds => \/ (Persisted(day))' = already' + issued'
                  \/ (Persisted(day0))' = already' + issued']_vars

\* C1, amended: when a run that issued k draws ends, the tries the file holds over
\* all days have grown by exactly k since the run loaded them, whatever the draws
\* and redemptions answered; and if the calendar day did not change during the
\* run, today's counter is c + k on reload.
C1_CounterAfterRun ==
    [][RunEnds => /\ PersistedTotal' = total0' + issued'
                  /\ (day' = day0' => (Persisted(day))' = already' + issued')]_vars

C1_Witness ==
    /\ pc = "crashed"
    /\ day = day0
    /\ issued = 2
    /\ already = 3
    /\ Persisted(day) = 5

\* C2 as stated: a run issues exactly max(0, dailyMax - attemptsToday) draws, never
\* leaving the loop early; with nothing remaining it issues none and still writes a
\* summary with no attempts.  Stated for the maxima that the cap of 5 leaves alone.
C2_ExactlyRemaining ==
    (pc \in {"done", "crashed"} /\ env.MAX_TIMES <= HARD_CAP) =>
        /\ issued = Max(0, env.MAX_TIMES - already)
        /\ report_json.written
        /\ (already >= env.MAX_TIMES => report_json.items = <<>>)

\* C3 as stated: once the controller has run, today's persisted counter does not
\* exceed the configured daily maximum.
C3_Original ==
    (runs > 0 /\ pc # "aborted") => Persisted(day) <= env.MAX_TIMES

\* C3, amended: once the controller has run, today's persisted counter exceeds
\* neither the hard cap of 5 nor the larger of the value the run loaded and
\* min(MAX_TIMES, 5); and no step of the program lowers the counter of any day
\* (only the loss of the state file does).
C3_CounterBounded ==
    /\ [](\A d \in Days : Persisted(d) <= HARD_CAP)
    /\ []((runs > 0 /\ pc # "aborted") => Persisted(day) <= Max(already, target))
    /\ [][losses' = losses => \A d \in Days : (Persisted(d))' >= Persisted(d)]_vars

C3_Witness ==
    /\ pc = "done"
    /\ target = 2
    /\ Persisted(day) = 5
    /\ runs = 2

\* C9: at every point of a run, killed or not, the file never holds more tries than
\* the run loaded plus the draws it has issued, for today and over all days; and
\* the increment of a draw is in the file before the redemption of its code or the
\* next draw is issued: only between a draw and its save is the file one behind.
C9_NoOverCount ==
    (runs > 0 /\ pc # "aborted") =>
        /\ PersistedTotal <= total0 + issued
        /\ Persisted(day) <= (IF day = day0 THEN already ELSE 0) + issued
        /\ (pc \in {"loop", "topup", "json", "html"} => PersistedTotal = total0 + issued)
        /\ (pc = "drawn" => PersistedTotal = total0 + issued - 1)

C9_Witness ==
    /\ pc = "killed"
    /\ issued = 2
    /\ unsaved = 1
    /\ PersistedTotal = total0 + 1

\* C10 as stated: on one calendar day the runs that share the state file never
\* issue more draws than the daily quota, a run killed between a draw and its save
\* and a state file that cannot be read included.
C10_Original ==
    \A d \in Days : issuedOn[d] <= HARD_CAP

\* C10, amended: on one calendar day the runs that share the state file issue at
\* most 5 * (1 + L) + K draws, L the times the state file was lost and K the runs
\* killed between a draw and the save of its increment; the quota of 5 is kept
\* when neither has happened.
C10_QuotaUpToLosses ==
    \A d \in Days : issuedOn[d] <= HARD_CAP * (1 + losses) + unsaved

C10_Witness ==
    /\ losses = 0
    /\ unsaved = 1
    /\ runs = 2
    /\ issuedOn[1] = HARD_CAP + 1

\* The texts a written summary.json holds of its records.
JsonTexts ==
    IF report_json.written
    THEN UNION {{Format(report_json.items[k].code), report_json.items[k].code_mask,
                 Format(report_json.items[k].draw_msg), Format(report_json.items[k].topup_msg)} :
                k \in 1..Len(report_json.items)}
    ELSE {}

\* The cells of a written index.html.
HtmlTexts ==
    IF report_html.written
    THEN UNION {{report_html.rows[k][c] : c \in 1..6} : k \in 1..Len(report_html.rows)}
    ELSE {}

\* Everything a run has put out so far.
Artifacts ==
    JsonTexts \cup HtmlTexts \cup log \cup (IF push.invoked THEN {push.title, push.content} ELSE {})

\* C4 as stated: the full text of a code a draw obtained is in no output of the run,
\* neither summary.json nor index.html nor the notification body nor the console
\* log; only its mask is.
C4_NoFullCode ==
    \A k \in 1..Len(results) :
        (results[k].code.t = "str" /\ results[k].code.s # "") =>
            \A text \in Artifacts : ~Contains(text, results[k].code.s)

\* The sum of the amounts that are integers proper, a boolean not being one.
RECURSIVE IntegralSum(_)
IntegralSum(items) ==
    IF items = <<>> THEN 0
    ELSE (IF Head(items).topup_amount.t = "int" THEN Head(items).topup_amount.n ELSE 0)
           + IntegralSum(Tail(items))

\* C6 as stated: the total amount of the summary is the sum of the amounts that are
\* present and integral; an amount that is absent, a boolean, a string or a
\* fraction adds nothing.
C6_IntegralOnly ==
    report_json.written => report_json.total_amount = IntegralSum(report_json.items)

C8_AlwaysReports ==
    (runs > 0 /\ env.configured /\ pc \in Ended) =>
        /\ pc = "done"
        /\ report_json.written
        /\ report_html.written

\* The fragment of a body whose redemptionCode the pattern of line 234 finds first.
FirstHex(parts) ==
    LET S == {k \in 1..Len(parts) : parts[k].hex} IN IF S = {} THEN 0 ELSE First(S)

\* The fragment of a body whose message the pattern of line 240 finds first.
FirstStrMsg(parts) ==
    LET S == {k \in 1..Len(parts) : parts[k].msg.t = "str"} IN IF S = {} THEN 0 ELSE First(S)

\* C5 as stated: for the body garbage{"message":"try later"}moregarbage
\* {"redemptionCode":"0123456789abcdef","message":"win"} the interpreter returns the
\* code and the message of the last fragment that parses: "0123456789abcdef", "win".
C5_Original ==
    (pc = "interpreted" /\ payload.text = BODY_TWO) =>
        /\ outcome.code = PyStr(CODE16)
        /\ outcome.msg = PyStr("win")

\* C5, amended: for a body of several JSON object fragments under a status no rule
\* catches, the code returned is that of the first fragment whose redemptionCode is
\* a string of 16 or more hex digits, and the message that of the first fragment
\* whose message is a string, its HTML entities resolved; only where there is no
\* such code, or that message is empty, do they come from the last fragment that
\* parses, as they stand there, the message being "HTTP <status>" if that has none.  For the body above: the code
\* "0123456789abcdef" and the message "try later".
C5_FirstMatchThenLast ==
    pc = "interpreted" =>
        LET parts == payload.parts
            last == parts[Len(parts)]
            h == FirstHex(parts)
            m == FirstStrMsg(parts)
        IN  /\ outcome.code = (IF h # 0 THEN parts[h].code ELSE last.code)
            /\ outcome.msg = (IF m # 0 /\ parts[m].msg.s # ""
                              THEN PyStr(html_unescape(parts[m].msg.s))
                              ELSE IF Truthy(last.msg) THEN last.msg
                              ELSE PyStr("HTTP " \o ToString(payload.status)))
            /\ DictGet(outcome.parsed.d, "message", PyNone) = last.msg
            /\ (payload.text = BODY_TWO =>
                   outcome.code = PyStr(CODE16) /\ outcome.msg = PyStr("try later"))

C5_Witness ==
    /\ pc = "interpreted"
    /\ payload.text = BODY_TWO
    /\ outcome.code = PyStr(CODE16)
    /\ outcome.msg = PyStr("try later")
    /\ DictGet(outcome.parsed.d, "message", PyNone) = PyStr("win")

=============================================================================
